---- MODULE Spec2Model ----
(***************************************************************************)
(* A model of scripts/xpclr.py: the XPCLR shell-script generator.  File     *)
(* names are sequences of one-character strings, so that Python's          *)
(* substring test (`tok in p.name`), suffix slicing (`name[:-len(sfx)]`)    *)
(* and path sorting are computed character by character.                   *)
(***************************************************************************)
EXTENDS Integers, Sequences, FiniteSets, TLC

VARIABLES
    args,      \* the parsed command line: pop1, pop2, run (enabled stages), chrid_list, interval
    fs,        \* the filesystem: files, dirs (directory entries), links (symbolic links), made (mkdir)
    scripts,   \* the script files written so far: records [path, body]
    pc,        \* position of the caller
    log,       \* the stage calls made by run(), in order: records [stage, in]
    out,       \* run()'s local variables: stage -> the value the stage returned, or None
    res,       \* the last call of a method: [fn, raised, value, printed]
    inp        \* the arguments of a direct call of a method

vars == <<args, fs, scripts, pc, log, out, res, inp>>

\* Optional values: None, or Some(v) holding v (an empty list is Some(<<>>)).
None == <<>>
Some(v) == <<v>>
the(o) == o[1]

----------------------------------------------------------------------------
(* Bounds of the model.                                                     *)

MaxFiles == 4       \* most directory entries drawn for one folder
MaxLen == 5         \* longest chromosome position list
MaxInterval == 3    \* largest --interval

----------------------------------------------------------------------------
(* Characters and strings.                                                  *)

\* ord(c) for the characters the model's names are made of (ASCII).
ord(c) ==
    CASE c = "-" -> 45 [] c = "." -> 46
      [] c = "0" -> 48 [] c = "1" -> 49 [] c = "2" -> 50 [] c = "3" -> 51
      [] c = "4" -> 52 [] c = "5" -> 53 [] c = "6" -> 54 [] c = "7" -> 55
      [] c = "8" -> 56 [] c = "9" -> 57
      [] c = "_" -> 95
      [] c = "a" -> 97 [] c = "b" -> 98 [] c = "c" -> 99 [] c = "d" -> 100
      [] c = "e" -> 101
      [] c = "f" -> 102 [] c = "g" -> 103 [] c = "h" -> 104 [] c = "i" -> 105
      [] c = "l" -> 108 [] c = "m" -> 109 [] c = "n" -> 110 [] c = "o" -> 111
      [] c = "p" -> 112 [] c = "r" -> 114 [] c = "s" -> 115 [] c = "t" -> 116
      [] c = "v" -> 118 [] c = "x" -> 120 [] c = "z" -> 122

\* Python's `s < t` on str: lexicographic by code point, a proper prefix first.
RECURSIVE str_lt(_, _)
str_lt(s, t) ==
    IF t = <<>> THEN FALSE
    ELSE IF s = <<>> THEN TRUE
    ELSE IF ord(Head(s)) # ord(Head(t)) THEN ord(Head(s)) < ord(Head(t))
    ELSE str_lt(Tail(s), Tail(t))

\* Python's `tok in name` on str: tok occurs as a contiguous substring.
str_in(tok, name) ==
    \E i \in 0..(Len(name) - Len(tok)) : SubSeq(name, i + 1, i + Len(tok)) = tok

\* Python's `name[:-n]` for n >= 1: all but the last n characters.
drop_last(name, n) == SubSeq(name, 1, Len(name) - n)

\* list.sort() of a list of distinct paths of one folder: ascending by name.
RECURSIVE sorted(_)
sorted(S) ==
    IF S = {} THEN <<>>
    ELSE LET m == CHOOSE p \in S : \A q \in S \ {p} : str_lt(p.name, q.name)
         IN <<m>> \o sorted(S \ {m})

----------------------------------------------------------------------------
(* class XPCLR: suffixes and directories.                                   *)

DATA_SUFFIX == <<".", "v", "c", "f", ".", "g", "z">>
FILTER_SUFFIX == <<".", "f", "i", "l", "t", "e", "r">> \o DATA_SUFFIX
OVERLAP_SUFFIX == <<".", "o", "v", "e", "r", "l", "a", "p">> \o DATA_SUFFIX
SPLIT_SUFFIX == DATA_SUFFIX
GENO_SUFFIX == <<".", "g", "e", "n", "o">>
MAP_SUFFIX == <<".", "m", "a", "p">>
XPCLR_SUFFIX == <<".", "x", "p", "c", "l", "r", ".", "t", "x", "t">>

data_dir == "00.data"
filter_dir == "01.filter"
overlap_dir == "02.overlap"
split_dir == "03.split"
genomap_dir == "04.genomap"
xpclr_dir == "05.xpclr"

\* Path.joinpath(name)
joinpath(dir, name) == [dir |-> dir, name |-> name]

----------------------------------------------------------------------------
(* pathlib on the modelled filesystem.                                      *)

\* Path.is_file(): a regular file, or a symbolic link whose target is one
\* (is_file follows links; a dangling link is not a file).
is_file(f, p) ==
    \/ p \in f.files
    \/ \E l \in f.links : l.at = p /\ l.to \in f.files

\* Every directory entry of the filesystem: files, directories and links.
entries(f) == f.files \cup f.dirs \cup {l.at : l \in f.links}

\* fnmatch of one name against a pattern with at most one, leading, "*".
fnmatch(name, pattern) ==
    IF pattern # <<>> /\ Head(pattern) = "*"
    THEN /\ Len(name) >= Len(pattern) - 1
         /\ SubSeq(name, Len(name) - Len(pattern) + 2, Len(name)) = Tail(pattern)
    ELSE name = pattern

\* folder.glob(pattern): the entries of the folder whose name matches.
glob(f, folder, pattern) ==
    {p \in entries(f) : p.dir = folder /\ fnmatch(p.name, pattern)}

----------------------------------------------------------------------------
(* XPCLR.find_file_pairs                                                    *)

\* The classification loop: the files with the pop1 token, and those with
\* the pop2 token and not the pop1 token; any other file is unknown.
matched_files(f, folder, pattern) == {p \in glob(f, folder, pattern) : is_file(f, p)}
pop1_of(a, M) == {p \in M : str_in(a.pop1, p.name)}
pop2_of(a, M) == {p \in M : ~str_in(a.pop1, p.name) /\ str_in(a.pop2, p.name)}
unknown_of(a, M) == M \ (pop1_of(a, M) \cup pop2_of(a, M))

\* Variant of unknown_raises: the loop skips such a file.
unknown_skipped(a, M) == FALSE

\* What the loop does with a file that holds neither token: raise.
unknown_raises(a, M) == unknown_of(a, M) # {}

\* Variants of after_loop: emptiness tested before count equality; and the
\* counts compared with `<`.
after_loop_empty_first(n1, n2) ==
    IF n1 <= 0 THEN "NotFound"
    ELSE IF n1 # n2 THEN "CountNotEqual"
    ELSE "none"
after_loop_less(n1, n2) ==
    IF n1 < n2 THEN "CountNotEqual"
    ELSE IF n1 <= 0 THEN "NotFound"
    ELSE "none"

\* The check made first after the loop (count equality), then emptiness.
after_loop(n1, n2) ==
    IF n1 # n2 THEN "CountNotEqual"
    ELSE IF n1 <= 0 THEN "NotFound"
    ELSE "none"

\* The value of the call: the function ends after its prints, with no
\* return statement, so a call that raises nothing evaluates to None.
find_file_pairs_value(p1, p2) == None

\* The checks after the loop and the end of the function, on the classified
\* files: sort, print, and the value of the call.
find_file_pairs_end(unknown, pop1_paths, pop2_paths) ==
    IF unknown THEN [raised |-> "UnknownFile", value |-> None, printed |-> None]
    ELSE IF after_loop(Cardinality(pop1_paths), Cardinality(pop2_paths)) # "none"
    THEN [raised |-> after_loop(Cardinality(pop1_paths), Cardinality(pop2_paths)),
          value |-> None, printed |-> None]
    ELSE [raised |-> "none",
          value |-> find_file_pairs_value(sorted(pop1_paths), sorted(pop2_paths)),
          printed |-> Some(<<sorted(pop1_paths), sorted(pop2_paths)>>)]

find_file_pairs(a, f, folder, pattern) ==
    find_file_pairs_end(unknown_raises(a, matched_files(f, folder, pattern)),
                        pop1_of(a, matched_files(f, folder, pattern)),
                        pop2_of(a, matched_files(f, folder, pattern)))

----------------------------------------------------------------------------
(* Calls and script files.                                                  *)

\* The outcome of a call: the exception it raised ("none" when it returned),
\* its value, and the filesystem and script files it leaves behind.
outcome(e, v, f, s) == [raised |-> e, value |-> v, fs |-> f, scripts |-> s]

\* open(path, "w") and the prints into it: the file is created or replaced.
write_script(s, path, body) == {x \in s : x.path # path} \cup {[path |-> path, body |-> body]}

\* dir.mkdir(parents=True, exist_ok=True)
mkdir(f, dir) == [f EXCEPT !.made = @ \cup {dir}]

\* zip(): the index range shared by the lists.
zip_len(lens) == CHOOSE n \in lens : \A m \in lens : n <= m

\* `a, b = value`: unpacking None raises TypeError.
unpack_raises(value) == value = None

\* What a stage makes of the result r of find_file_pairs: it unpacks it.
unpacked(r) ==
    IF r.raised # "none" THEN [raised |-> r.raised, value |-> None]
    ELSE IF unpack_raises(r.value) THEN [raised |-> "TypeError", value |-> None]
    ELSE [raised |-> "none", value |-> r.value]

\* The inputs a stage works on: the lists it was given, or, when one of them
\* is None, what find_file_pairs on (folder, pattern) evaluates to.
stage_inputs(a, f, in1, in2, folder, pattern) ==
    IF in1 = None \/ in2 = None
    THEN unpacked(find_file_pairs(a, f, folder, pattern))
    ELSE [raised |-> "none", value |-> Some(<<the(in1), the(in2)>>)]

----------------------------------------------------------------------------
(* Stage 1: filter                                                          *)

\* XPCLR._generate_script_filter: the script written and the path returned.
filter_name(in_path) == drop_last(in_path.name, Len(DATA_SUFFIX))
filter_path_of(in_path) == joinpath(filter_dir, filter_name(in_path) \o FILTER_SUFFIX)
filter_script_of(in_path) == joinpath(filter_dir, filter_name(in_path) \o <<".", "f", "i", "l", "t", "e", "r", ".", "s", "h">>)

RECURSIVE filter_loop(_, _, _, _)
filter_loop(s, p1, p2, k) ==
    IF k > zip_len({Len(p1), Len(p2)}) THEN s
    ELSE filter_loop(
             write_script(
                 write_script(s, filter_script_of(p1[k]), <<p1[k], filter_path_of(p1[k])>>),
                 filter_script_of(p2[k]), <<p2[k], filter_path_of(p2[k])>>),
             p1, p2, k + 1)

\* The stage on its input lists p1 and p2.
filter_lists(f, s, p1, p2) ==
    outcome("none",
            Some(<<[k \in 1..zip_len({Len(p1), Len(p2)}) |-> filter_path_of(p1[k])],
                   [k \in 1..zip_len({Len(p1), Len(p2)}) |-> filter_path_of(p2[k])]>>),
            mkdir(f, filter_dir),
            filter_loop(s, p1, p2, 1))

filter_given(f, s, i) ==
    IF i.raised # "none" THEN outcome(i.raised, None, f, s)
    ELSE filter_lists(f, s, the(i.value)[1], the(i.value)[2])

generate_scripts_filter(a, f, s, in1, in2) ==
    filter_given(f, s, stage_inputs(a, f, in1, in2, data_dir, DATA_SUFFIX))

----------------------------------------------------------------------------
(* Stage 2: overlap                                                         *)

overlap_name(in_path) == drop_last(in_path.name, Len(FILTER_SUFFIX))
overlap_path_of(in_path) == joinpath(overlap_dir, overlap_name(in_path) \o OVERLAP_SUFFIX)
overlap_script_of(p1, p2) ==
    joinpath(overlap_dir, overlap_name(p1) \o <<"_">> \o overlap_name(p2) \o <<".", "o", "v", "e", "r", "l", "a", "p", ".", "s", "h">>)

RECURSIVE overlap_loop(_, _, _, _)
overlap_loop(s, p1, p2, k) ==
    IF k > zip_len({Len(p1), Len(p2)}) THEN s
    ELSE overlap_loop(
             write_script(s, overlap_script_of(p1[k], p2[k]),
                          <<p1[k], p2[k], overlap_path_of(p1[k]), overlap_path_of(p2[k])>>),
             p1, p2, k + 1)

\* The stage on its input lists p1 and p2.
overlap_lists(f, s, p1, p2) ==
    outcome("none",
            Some(<<[k \in 1..zip_len({Len(p1), Len(p2)}) |-> overlap_path_of(p1[k])],
                   [k \in 1..zip_len({Len(p1), Len(p2)}) |-> overlap_path_of(p2[k])]>>),
            mkdir(f, overlap_dir),
            overlap_loop(s, p1, p2, 1))

overlap_given(f, s, i) ==
    IF i.raised # "none" THEN outcome(i.raised, None, f, s)
    ELSE overlap_lists(f, s, the(i.value)[1], the(i.value)[2])

generate_scripts_overlap(a, f, s, in1, in2) ==
    overlap_given(f, s, stage_inputs(a, f, in1, in2, filter_dir, FILTER_SUFFIX))

----------------------------------------------------------------------------
(* get_chrpos_from_vcfgz, get_chrpos_from_vcfgz_files                       *)

\* Variant of dict_set: a key already stored keeps its value.
dict_set_once(d, k, v) == d @@ (k :> v)

\* Variant of dict_update: a key of old keeps its value.
dict_update_keep(old, new) == old @@ new

\* dict.update / dict[k] = v: the keys of new replace those of old.
dict_update(old, new) == new @@ old
dict_set(d, k, v) == (k :> v) @@ d
empty_dict == [k \in {} |-> <<>>]

\* The loop over the lines of one file.  A line is [hdr, chrid, pos]; last
\* is the optional last_chrid, positions the run being collected.
RECURSIVE chrpos_scan(_, _, _, _, _)
chrpos_scan(lines, k, chr_pos, last, positions) ==
    IF k > Len(lines)
    THEN IF last # None /\ Len(positions) > 0
         THEN dict_set(chr_pos, the(last), positions)
         ELSE chr_pos
    ELSE IF lines[k].hdr
    THEN chrpos_scan(lines, k + 1, chr_pos, last, positions)
    ELSE IF Some(lines[k].chrid) # last
    THEN chrpos_scan(lines, k + 1,
                     IF last # None /\ Len(positions) > 0
                     THEN dict_set(chr_pos, the(last), positions)
                     ELSE chr_pos,
                     Some(lines[k].chrid), <<lines[k].pos>>)
    ELSE chrpos_scan(lines, k + 1, chr_pos, last, Append(positions, lines[k].pos))

\* One indexing task: gzip.open fails on a missing file and on a file that
\* is not gzip text (no entry in f.vcf).
get_chrpos_from_vcfgz(f, path) ==
    IF ~is_file(f, path) THEN [raised |-> "FileNotFoundError", value |-> empty_dict]
    ELSE IF path \notin DOMAIN f.vcf THEN [raised |-> "BadGzipFile", value |-> empty_dict]
    ELSE [raised |-> "none", value |-> chrpos_scan(f.vcf[path], 1, empty_dict, None, <<>>)]

\* The merge loop over futures.as_completed(tasks): order is the order in
\* which the tasks are yielded; the first failed task met raises.
RECURSIVE chrpos_merge(_, _, _, _, _)
\* Variant of chrpos_merge_task: a failed task counts as an empty mapping.
chrpos_merge_task_skip(f, paths, order, k, chr_pos, t) ==
    chrpos_merge(f, paths, order, k + 1, dict_update(chr_pos, t.value))

chrpos_merge_task(f, paths, order, k, chr_pos, t) ==
    IF t.raised # "none" THEN [raised |-> t.raised, value |-> empty_dict]
    ELSE chrpos_merge(f, paths, order, k + 1, dict_update(chr_pos, t.value))

chrpos_merge(f, paths, order, k, chr_pos) ==
    IF k > Len(order) THEN [raised |-> "none", value |-> chr_pos]
    ELSE chrpos_merge_task(f, paths, order, k, chr_pos,
                           get_chrpos_from_vcfgz(f, paths[order[k]]))

\* ProcessPoolExecutor(0) raises ValueError.
get_chrpos_from_vcfgz_files(f, paths, order) ==
    IF Len(paths) <= 0 THEN [raised |-> "ValueError", value |-> empty_dict]
    ELSE chrpos_merge(f, paths, order, 1, empty_dict)

\* The orders in which n completed tasks can be yielded.
orders(n) == {o \in [1..n -> 1..n] : \A i, j \in 1..n : i # j => o[i] # o[j]}

----------------------------------------------------------------------------
(* Stage 3: split                                                           *)

\* str(n) for an int n >= 0.
digit == <<"0", "1", "2", "3", "4", "5", "6", "7", "8", "9">>
RECURSIVE str_of_int(_)
str_of_int(n) == IF n < 10 THEN <<digit[n + 1]>> ELSE str_of_int(n \div 10) \o <<digit[(n % 10) + 1]>>

\* Variant of window_end: the window taken one index too long.
window_end_long(lstart, interval, length) ==
    IF lstart + interval < length - 1 THEN lstart + interval ELSE length - 1

\* lend of the window that starts at lstart.
window_end(lstart, interval, length) ==
    IF lstart + interval - 1 < length - 1 THEN lstart + interval - 1 ELSE length - 1

\* range(0, length, interval) for interval > 0, from lstart on: the windows.
RECURSIVE windows_from(_, _, _)
windows_from(lstart, length, interval) ==
    IF lstart >= length THEN <<>>
    ELSE <<[lstart |-> lstart, lend |-> window_end(lstart, interval, length)]>>
         \o windows_from(lstart + interval, length, interval)

split_name(in_path) == drop_last(in_path.name, Len(OVERLAP_SUFFIX))
split_script_of(in_path, chrid) ==
    joinpath(split_dir, chrid \o <<".">> \o split_name(in_path) \o <<".", "s", "p", "l", "i", "t", ".", "s", "h">>)
split_path_of(in_path, chrid, w) ==
    joinpath(split_dir, chrid \o <<"-">> \o str_of_int(w.lstart) \o <<"-">> \o str_of_int(w.lend)
                        \o <<".">> \o split_name(in_path) \o SPLIT_SUFFIX)

\* Variant of split_cmd: the region is given by the indices.
split_cmd_by_index(in_path, chrid, positions, w) ==
    [in_path |-> in_path, chrid |-> chrid,
     lstart |-> w.lstart, lend |-> w.lend,
     pos_start |-> w.lstart, pos_end |-> w.lend,
     split_path |-> split_path_of(in_path, chrid, w)]

\* One line group of the split script: the region handed to bcftools and
\* the artifact it names.
split_cmd(in_path, chrid, positions, w) ==
    [in_path |-> in_path, chrid |-> chrid,
     lstart |-> w.lstart, lend |-> w.lend,
     pos_start |-> positions[w.lstart + 1], pos_end |-> positions[w.lend + 1],
     split_path |-> split_path_of(in_path, chrid, w)]

\* The script of the windows ws and the paths returned.
split_script(s, in_path, chrid, positions, ws) ==
    [raised |-> "none",
     value |-> [k \in 1..Len(ws) |-> split_path_of(in_path, chrid, ws[k])],
     scripts |-> write_script(s, split_script_of(in_path, chrid),
                     [k \in 1..Len(ws) |-> split_cmd(in_path, chrid, positions, ws[k])])]

\* XPCLR._generate_script_split: range() raises ValueError on a zero step,
\* after the script file was opened; a negative step gives no window.
_generate_script_split(s, in_path, chrid, positions, interval) ==
    IF interval = 0
    THEN [raised |-> "ValueError", value |-> <<>>,
          scripts |-> write_script(s, split_script_of(in_path, chrid), <<>>)]
    ELSE split_script(s, in_path, chrid, positions,
                      IF interval < 0 THEN <<>> ELSE windows_from(0, Len(positions), interval))

\* list * n
RECURSIVE repeat(_, _)
repeat(l, n) == IF n <= 0 THEN <<>> ELSE l \o repeat(l, n - 1)

\* list(filter(lambda x: chrid in x.name, paths))
RECURSIVE files_with(_, _)
files_with(chrid, paths) ==
    IF paths = <<>> THEN <<>>
    ELSE (IF str_in(chrid, Head(paths).name) THEN <<Head(paths)>> ELSE <<>>)
         \o files_with(chrid, Tail(paths))

\* The loop over chrid_list that picks one file per population and chromosome
\* id, raising on an id with no file or several.
RECURSIVE select_loop(_, _, _, _, _, _)
select_chrid(chrid_list, _pop1, _pop2, k, acc1, acc2, _p1, _p2) ==
    IF Len(_p1) <= 0 \/ Len(_p1) > 1
    THEN [raised |-> "CountIncorrect", pop1 |-> acc1, pop2 |-> acc2,
          detail |-> Some([chrid |-> chrid_list[k], pop |-> "pop1", files |-> _pop1])]
    ELSE IF Len(_p2) <= 0 \/ Len(_p2) > 1
    THEN [raised |-> "CountIncorrect", pop1 |-> acc1, pop2 |-> acc2,
          detail |-> Some([chrid |-> chrid_list[k], pop |-> "pop2", files |-> _pop2])]
    ELSE select_loop(chrid_list, _pop1, _pop2, k + 1, Append(acc1, _p1[1]), Append(acc2, _p2[1]))

select_loop(chrid_list, _pop1, _pop2, k, acc1, acc2) ==
    IF k > Len(chrid_list) THEN [raised |-> "none", detail |-> None, pop1 |-> acc1, pop2 |-> acc2]
    ELSE select_chrid(chrid_list, _pop1, _pop2, k, acc1, acc2,
                      files_with(chrid_list[k], _pop1), files_with(chrid_list[k], _pop2))

\* The list whose length decides between replication and selection: the
\* name pop1_overlap_paths, which was rebound to a new empty list just before.
counted_paths(_pop1, pop1_overlap_paths) == pop1_overlap_paths

\* The branch taken on the rebound names pop1_overlap_paths and
\* pop2_overlap_paths.
align_branch(chrid_list, _pop1, _pop2, pop1_overlap_paths, pop2_overlap_paths) ==
    IF Len(counted_paths(_pop1, pop1_overlap_paths)) <= 1
    THEN [raised |-> "none", detail |-> None,
          pop1 |-> repeat(pop1_overlap_paths, Len(chrid_list)),
          pop2 |-> repeat(pop2_overlap_paths, Len(chrid_list))]
    ELSE select_loop(chrid_list, _pop1, _pop2, 1, pop1_overlap_paths, pop2_overlap_paths)

\* "preprocess different vcf.gz count": the given lists are kept as _pop1
\* and _pop2, the names pop1_overlap_paths and pop2_overlap_paths are rebound
\* to empty lists, and then the branch is taken.
align_files(chrid_list, _pop1, _pop2) == align_branch(chrid_list, _pop1, _pop2, <<>>, <<>>)

\* The loop over zip(chrid_list, pop1_overlap_paths, pop2_overlap_paths):
\* split_loop looks up chrpos1[chrid] and writes the pop1 script (r1),
\* split_loop_pop2 looks up chrpos2[chrid] and writes the pop2 script (r2),
\* split_loop_next goes on to the next chromosome id.
RECURSIVE split_loop(_, _, _, _, _, _, _, _, _, _)
split_loop_next(r2, chrid_list, p1, p2, chrpos1, chrpos2, interval, k, acc1, acc2) ==
    IF r2.raised # "none"
    THEN [raised |-> r2.raised, scripts |-> r2.scripts, pop1 |-> acc1, pop2 |-> acc2]
    ELSE split_loop(r2.scripts, chrid_list, p1, p2, chrpos1, chrpos2, interval, k + 1,
                    acc1, acc2 \o r2.value)

split_loop_pop2(r1, chrid_list, p1, p2, chrpos1, chrpos2, interval, k, acc1, acc2) ==
    IF r1.raised # "none"
    THEN [raised |-> r1.raised, scripts |-> r1.scripts, pop1 |-> acc1, pop2 |-> acc2]
    ELSE IF chrid_list[k] \notin DOMAIN chrpos2
    THEN [raised |-> "KeyError", scripts |-> r1.scripts, pop1 |-> acc1 \o r1.value, pop2 |-> acc2]
    ELSE split_loop_next(
             _generate_script_split(r1.scripts, p2[k], chrid_list[k],
                                    chrpos2[chrid_list[k]], interval),
             chrid_list, p1, p2, chrpos1, chrpos2, interval, k, acc1 \o r1.value, acc2)

split_loop(s, chrid_list, p1, p2, chrpos1, chrpos2, interval, k, acc1, acc2) ==
    IF k > zip_len({Len(chrid_list), Len(p1), Len(p2)})
    THEN [raised |-> "none", scripts |-> s, pop1 |-> acc1, pop2 |-> acc2]
    ELSE IF chrid_list[k] \notin DOMAIN chrpos1
    THEN [raised |-> "KeyError", scripts |-> s, pop1 |-> acc1, pop2 |-> acc2]
    ELSE split_loop_pop2(
             _generate_script_split(s, p1[k], chrid_list[k], chrpos1[chrid_list[k]], interval),
             chrid_list, p1, p2, chrpos1, chrpos2, interval, k, acc1, acc2)

\* XPCLR.generate_scripts_split, from the end to the start: the return of
\* the lists the loop collected,
split_return(f1, r) ==
    IF r.raised # "none" THEN outcome(r.raised, None, f1, r.scripts)
    ELSE outcome("none", Some(<<r.pop1, r.pop2>>), f1, r.scripts)

\* the loop over the aligned lists al,
split_aligned(a, f1, s, al, chrpos1, chrpos2) ==
    IF al.raised # "none" THEN outcome(al.raised, al.detail, f1, s)
    ELSE split_return(f1, split_loop(s, a.chrid_list, al.pop1, al.pop2, chrpos1, chrpos2,
                                     a.interval, 1, <<>>, <<>>))

\* the alignment of the given lists, once both position indexes are there,
split_indexed(a, f1, s, _pop1, _pop2, chrpos1, chrpos2) ==
    IF chrpos1.raised # "none" THEN outcome(chrpos1.raised, None, f1, s)
    ELSE IF chrpos2.raised # "none" THEN outcome(chrpos2.raised, None, f1, s)
    ELSE split_aligned(a, f1, s, align_files(a.chrid_list, _pop1, _pop2),
                       chrpos1.value, chrpos2.value)

\* mkdir and the two calls of get_chrpos_from_vcfgz_files on the inputs i,
split_given(a, f, s, i, o1, o2) ==
    IF i.raised # "none" THEN outcome(i.raised, None, f, s)
    ELSE split_indexed(a, mkdir(f, split_dir), s, the(i.value)[1], the(i.value)[2],
                       get_chrpos_from_vcfgz_files(mkdir(f, split_dir), the(i.value)[1], o1),
                       get_chrpos_from_vcfgz_files(mkdir(f, split_dir), the(i.value)[2], o2))

\* and the inputs: the given lists or find_file_pairs.  o1 and o2 are the
\* orders in which the indexing tasks of pop1 and of pop2 are merged.
generate_scripts_split(a, f, s, in1, in2, o1, o2) ==
    split_given(a, f, s, stage_inputs(a, f, in1, in2, overlap_dir, OVERLAP_SUFFIX), o1, o2)

----------------------------------------------------------------------------
(* Stage 4: geno & map                                                      *)

\* XPCLR._generate_script_genomap
genomap_name(in_path) == drop_last(in_path.name, Len(SPLIT_SUFFIX))
geno_path_of(in_path) == joinpath(genomap_dir, genomap_name(in_path) \o GENO_SUFFIX)
map_path_of(in_path) == joinpath(genomap_dir, genomap_name(in_path) \o MAP_SUFFIX)
genomap_script_of(in_path) == joinpath(genomap_dir, genomap_name(in_path) \o <<".", "g", "e", "n", "o", "m", "a", "p", ".", "s", "h">>)

RECURSIVE genomap_loop(_, _, _, _)
genomap_loop(s, p1, p2, k) ==
    IF k > zip_len({Len(p1), Len(p2)}) THEN s
    ELSE genomap_loop(
             write_script(
                 write_script(s, genomap_script_of(p1[k]),
                              <<p1[k], geno_path_of(p1[k]), map_path_of(p1[k])>>),
                 genomap_script_of(p2[k]), <<p2[k], geno_path_of(p2[k]), map_path_of(p2[k])>>),
             p1, p2, k + 1)

\* The stage on its input lists p1 and p2; it returns (geno1, geno2, map1, map2).
genomap_lists(f, s, p1, p2) ==
    outcome("none",
            Some(<<[k \in 1..zip_len({Len(p1), Len(p2)}) |-> geno_path_of(p1[k])],
                   [k \in 1..zip_len({Len(p1), Len(p2)}) |-> geno_path_of(p2[k])],
                   [k \in 1..zip_len({Len(p1), Len(p2)}) |-> map_path_of(p1[k])],
                   [k \in 1..zip_len({Len(p1), Len(p2)}) |-> map_path_of(p2[k])]>>),
            mkdir(f, genomap_dir),
            genomap_loop(s, p1, p2, 1))

genomap_given(f, s, i) ==
    IF i.raised # "none" THEN outcome(i.raised, None, f, s)
    ELSE genomap_lists(f, s, the(i.value)[1], the(i.value)[2])

\* XPCLR.generate_scripts_genomap
generate_scripts_genomap(a, f, s, in1, in2) ==
    genomap_given(f, s, stage_inputs(a, f, in1, in2, split_dir, SPLIT_SUFFIX))

----------------------------------------------------------------------------
(* Stage 5: xpclr                                                           *)

\* str.split(c) for a one-character separator c.
RECURSIVE str_split(_, _)
str_split(s, c) ==
    IF \A i \in 1..Len(s) : s[i] # c THEN <<s>>
    ELSE LET i == CHOOSE i \in 1..Len(s) : s[i] = c /\ \A j \in 1..(i - 1) : s[j] # c
         IN  <<SubSeq(s, 1, i - 1)>> \o str_split(SubSeq(s, i + 1, Len(s)), c)

\* c.join(parts)
RECURSIVE str_join(_, _)
str_join(c, parts) ==
    IF parts = <<>> THEN <<>>
    ELSE IF Len(parts) = 1 THEN parts[1]
    ELSE parts[1] \o <<c>> \o str_join(c, Tail(parts))

\* list[1:]
rest(l) == IF l = <<>> THEN <<>> ELSE Tail(l)

is_digit(c) == ord(c) >= 48 /\ ord(c) <= 57

\* re.search("\d+", s): the leftmost longest run of digits, None without one.
re_search_digits(s) ==
    IF \A i \in 1..Len(s) : ~is_digit(s[i]) THEN None
    ELSE LET i == CHOOSE i \in 1..Len(s) : is_digit(s[i]) /\ \A j \in 1..(i - 1) : ~is_digit(s[j])
             e == CHOOSE e \in i..Len(s) :
                      /\ \A j \in i..e : is_digit(s[j])
                      /\ (e = Len(s) \/ ~is_digit(s[e + 1]))
         IN  Some(SubSeq(s, i, e))

\* int(digits)
RECURSIVE int_of(_)
int_of(ds) ==
    IF ds = <<>> THEN 0 ELSE 10 * int_of(SubSeq(ds, 1, Len(ds) - 1)) + (ord(ds[Len(ds)]) - 48)

\* Variant of xpclr_name: the first "."-segment is kept.
xpclr_name_whole(g) == drop_last(g.name, Len(GENO_SUFFIX))

\* The names the loop body derives from one (g1, g2, m).
xpclr_name(g) == str_join(".", rest(str_split(drop_last(g.name, Len(GENO_SUFFIX)), ".")))
chr_interval_of(m) == str_split(m.name, ".")[1]
chrnum_match(m) == re_search_digits(str_split(chr_interval_of(m), "-")[1])
xpclr_out_name(g1, g2, m) ==
    chr_interval_of(m) \o <<".">> \o xpclr_name(g1) \o <<"_">> \o xpclr_name(g2)
xpclr_path_of(g1, g2, m) == joinpath(xpclr_dir, xpclr_out_name(g1, g2, m))
xpclr_script_of(g1, g2, m) == joinpath(xpclr_dir, xpclr_out_name(g1, g2, m) \o <<".", "x", "p", "c", "l", "r", ".", "s", "h">>)

\* The guard in front of symlink_to.
link_missing(f, _link) == ~is_file(f, _link)

\* `if not _link.is_file(): _link.symlink_to(target)`; symlink_to raises
\* FileExistsError when anything, a dangling link included, is at _link.
make_link_at(f, _link, target) ==
    IF ~link_missing(f, _link) THEN [raised |-> "none", fs |-> f]
    ELSE IF _link \in entries(f) THEN [raised |-> "FileExistsError", fs |-> f]
    ELSE [raised |-> "none", fs |-> [f EXCEPT !.links = @ \cup {[at |-> _link, to |-> target]}]]

\* One guarded link, made unless an earlier statement l of the body raised.
make_link(l, target) ==
    IF l.raised # "none" THEN l
    ELSE make_link_at(l.fs, joinpath(xpclr_dir, target.name), target)

\* The loop over zip(pop1_geno_paths, pop2_geno_paths, pop_map_paths): the
\* names and chrnum, the three links (l), then the script.
RECURSIVE xpclr_loop(_, _, _, _, _, _, _)
xpclr_linked(l, s, g1, g2, m, k, acc) ==
    IF l.raised # "none" THEN [raised |-> l.raised, fs |-> l.fs, scripts |-> s, paths |-> acc]
    ELSE xpclr_loop(l.fs,
                    write_script(s, xpclr_script_of(g1[k], g2[k], m[k]),
                                 [g1 |-> g1[k].name, g2 |-> g2[k].name, m |-> m[k].name,
                                  out |-> xpclr_out_name(g1[k], g2[k], m[k]),
                                  chrnum |-> int_of(the(chrnum_match(m[k])))]),
                    g1, g2, m, k + 1,
                    Append(acc, xpclr_path_of(g1[k], g2[k], m[k])))

xpclr_loop(f, s, g1, g2, m, k, acc) ==
    IF k > zip_len({Len(g1), Len(g2), Len(m)})
    THEN [raised |-> "none", fs |-> f, scripts |-> s, paths |-> acc]
    ELSE IF chrnum_match(m[k]) = None
    THEN [raised |-> "AttributeError", fs |-> f, scripts |-> s, paths |-> acc]
    ELSE xpclr_linked(
             make_link(make_link(make_link([raised |-> "none", fs |-> f], g1[k]), g2[k]), m[k]),
             s, g1, g2, m, k, acc)

xpclr_return(r) ==
    outcome(r.raised, IF r.raised = "none" THEN Some(r.paths) ELSE None, r.fs, r.scripts)

xpclr_given(f, s, i, j) ==
    IF i.raised # "none" THEN outcome(i.raised, None, f, s)
    ELSE IF j.raised # "none" THEN outcome(j.raised, None, f, s)
    ELSE xpclr_return(xpclr_loop(mkdir(f, xpclr_dir), s, the(i.value)[1], the(i.value)[2],
                                 the(j.value)[1], 1, <<>>))

\* XPCLR.generate_scripts_xpclr
generate_scripts_xpclr(a, f, s, in1, in2, inm) ==
    xpclr_given(f, s,
                stage_inputs(a, f, in1, in2, genomap_dir, GENO_SUFFIX),
                stage_inputs(a, f, inm, inm, genomap_dir, MAP_SUFFIX))

----------------------------------------------------------------------------
(* State shared by the specifications.                                      *)

Stages == <<"filter", "overlap", "split", "genomap", "xpclr">>

\* run()'s locals before the first stage.
no_out ==
    [pop1_filter_paths |-> None, pop2_filter_paths |-> None,
     pop1_overlap_paths |-> None, pop2_overlap_paths |-> None,
     pop1_split_paths |-> None, pop2_split_paths |-> None,
     pop1_geno_paths |-> None, pop2_geno_paths |-> None,
     pop1_map_paths |-> None, pop2_map_paths |-> None,
     xpclr_paths |-> None]

no_call == [fn |-> "", raised |-> "none", value |-> None, printed |-> None]
empty_fs == [files |-> {}, dirs |-> {}, links |-> {}, made |-> {}, vcf |-> [p \in {} |-> <<>>]]

\* --pop1 and --pop2 as given on the command line; "gz" is a token that
\* every *.gz name holds.
Pop1Tokens == {<<"a">>, <<"g", "z">>}
Pop2Tokens == {<<"b">>}
default_args(t1, t2) ==
    [pop1 |-> t1, pop2 |-> t2, run |-> {}, chrid_list |-> <<<<"1">>>>, interval |-> 2]

\* The state a call of an indexing function leaves: the mapping returned.
index_returned_to(fn, t) ==
    /\ res' = [fn |-> fn, raised |-> t.raised, value |-> Some(t.value), printed |-> None]
    /\ pc' = IF t.raised = "none" THEN "returned" ELSE "raised"

----------------------------------------------------------------------------
(* SpecFind: find_file_pairs called on a folder of the data directory, and  *)
(* generate_scripts_filter() called as run() calls it.                      *)

\* Names a data folder may hold.
FindNames ==
    { <<"a", ".", "1">> \o DATA_SUFFIX, <<"a", ".", "2">> \o DATA_SUFFIX,
      <<"b", ".", "1">> \o DATA_SUFFIX, <<"b", ".", "2">> \o DATA_SUFFIX,
      <<"o", ".", "1">> \o DATA_SUFFIX, <<"a", "b">> \o DATA_SUFFIX,
      DATA_SUFFIX, <<"a", ".", "1">> \o GENO_SUFFIX }

InitFind ==
    /\ \E t1 \in Pop1Tokens, t2 \in Pop2Tokens : args = default_args(t1, t2)
    /\ \E F \in SUBSET FindNames, D \in SUBSET {<<"a", ".", "d">> \o DATA_SUFFIX} :
          /\ Cardinality(F) + Cardinality(D) <= MaxFiles
          /\ fs = [empty_fs EXCEPT !.files = {joinpath(data_dir, n) : n \in F},
                                   !.dirs = {joinpath(data_dir, n) : n \in D}]
    /\ scripts = {}
    /\ pc = "idle"
    /\ log = <<>>
    /\ out = no_out
    /\ res = no_call
    /\ inp = None

\* The state a call leaves: what it raised or returned, in res.
returned_to(fn, r) ==
    /\ res' = [fn |-> fn, raised |-> r.raised, value |-> r.value, printed |-> r.printed]
    /\ pc' = IF r.raised = "none" THEN "returned" ELSE "raised"

\* The same for a stage, which also leaves its files and scripts.
stage_returned_to(fn, o) ==
    /\ res' = [fn |-> fn, raised |-> o.raised, value |-> o.value, printed |-> None]
    /\ fs' = o.fs
    /\ scripts' = o.scripts
    /\ pc' = IF o.raised = "none" THEN "returned" ELSE "raised"

call_find_file_pairs ==
    \E pattern \in {DATA_SUFFIX, <<"*">> \o DATA_SUFFIX} :
        /\ inp' = Some([folder |-> data_dir, pattern |-> pattern])
        /\ returned_to("find_file_pairs", find_file_pairs(args, fs, data_dir, pattern))
        /\ UNCHANGED <<args, fs, scripts, log, out>>

call_generate_scripts_filter ==
    /\ inp' = None
    /\ stage_returned_to("generate_scripts_filter",
                         generate_scripts_filter(args, fs, scripts, None, None))
    /\ UNCHANGED <<args, log, out>>

NextFind == call_find_file_pairs \/ call_generate_scripts_filter
SpecFind == InitFind /\ [][NextFind]_vars

----------------------------------------------------------------------------
(* Properties of find_file_pairs (SpecFind).                                *)

\* The files the last call of find_file_pairs matched, and their classes.
FoundFiles == matched_files(fs, data_dir, the(inp).pattern)
FoundPop1 == {p \in FoundFiles : str_in(args.pop1, p.name)}
FoundPop2 == {p \in FoundFiles \ FoundPop1 : str_in(args.pop2, p.name)}
FoundOther == FoundFiles \ (FoundPop1 \cup FoundPop2)
FindCalled == res.fn = "find_file_pairs"

\* A list of the paths of S, ascending by name.
IsSortedListOf(l, S) ==
    /\ Len(l) = Cardinality(S)
    /\ {l[k] : k \in 1..Len(l)} = S
    /\ \A k \in 1..(Len(l) - 1) : str_lt(l[k].name, l[k + 1].name)

\* C1: when the matched files are N >= 1 pop1 files and N pop2 files,
\* find_file_pairs returns to its caller the two lists, each of length N and
\* sorted ascending by path.
C1_ReturnsSortedPairs ==
    (FindCalled /\ FoundOther = {} /\ Cardinality(FoundPop1) = Cardinality(FoundPop2)
        /\ Cardinality(FoundPop1) >= 1)
    => /\ res.raised = "none"
       /\ res.value # None
       /\ IsSortedListOf(the(res.value)[1], FoundPop1)
       /\ IsSortedListOf(the(res.value)[2], FoundPop2)

\* C6: a matched file that holds neither token makes find_file_pairs raise
\* the unknown-file error and return nothing, whatever else was matched.
C6_UnknownFileRaises ==
    (FindCalled /\ FoundOther # {}) => (res.raised = "UnknownFile" /\ res.value = None)

\* C6 witness: the error was raised with a pop1 file and a pop2 file present.
C6_Witness ==
    /\ FindCalled /\ res.raised = "UnknownFile"
    /\ FoundPop1 # {} /\ FoundPop2 # {} /\ FoundOther # {}

\* C7 as stated: an empty population list after classification gives the
\* no-files-found error.
C7_EmptyGivesNotFound ==
    (FindCalled /\ FoundOther = {} /\ (FoundPop1 = {} \/ FoundPop2 = {}))
    => res.raised = "NotFound"

\* C7 amended: both lists empty gives the no-files-found error; exactly one
\* list empty gives the count-mismatch error.
C7_EmptyBothOrOne ==
    (FindCalled /\ FoundOther = {})
    => /\ (FoundPop1 = {} /\ FoundPop2 = {}) => res.raised = "NotFound"
       /\ ((FoundPop1 = {}) # (FoundPop2 = {})) => res.raised = "CountNotEqual"

\* C7 witness: one population without a file, the other with one.
C7_Witness ==
    /\ FindCalled /\ FoundOther = {} /\ FoundPop1 = {} /\ FoundPop2 # {}
    /\ res.raised = "CountNotEqual"

\* The files generate_scripts_filter() has find_file_pairs match and classify.
StageFiles == matched_files(fs, data_dir, DATA_SUFFIX)
StagePop1 == {p \in StageFiles : str_in(args.pop1, p.name)}
StagePop2 == {p \in StageFiles \ StagePop1 : str_in(args.pop2, p.name)}
StageOther == StageFiles \ (StagePop1 \cup StagePop2)
StageCalled == res.fn = "generate_scripts_filter"

\* C8: differing counts of pop1 and pop2 files (each matched file holding a
\* token) give the count-mismatch error, and the stage that called
\* find_file_pairs writes no script.
C8_CountMismatchRaises ==
    /\ (FindCalled /\ FoundOther = {} /\ Cardinality(FoundPop1) # Cardinality(FoundPop2))
       => (res.raised = "CountNotEqual" /\ res.value = None)
    /\ (StageCalled /\ StageOther = {} /\ Cardinality(StagePop1) # Cardinality(StagePop2))
       => (res.raised = "CountNotEqual" /\ scripts = {} /\ fs.made = {})

\* C8 witness: the stage was called and raised the count-mismatch error.
C8_Witness ==
    /\ StageCalled /\ res.raised = "CountNotEqual"
    /\ Cardinality(StagePop1) # Cardinality(StagePop2)

----------------------------------------------------------------------------
(* SpecPartition: _generate_script_split called on one position list.       *)

PosValues == {11, 12}
a_overlap == joinpath(overlap_dir, <<"a">> \o OVERLAP_SUFFIX)

InitPartition ==
    /\ \E t1 \in Pop1Tokens, t2 \in Pop2Tokens : args = default_args(t1, t2)
    /\ fs = [empty_fs EXCEPT !.files = {a_overlap}]
    /\ scripts = {}
    /\ pc = "idle"
    /\ log = <<>>
    /\ out = no_out
    /\ res = no_call
    /\ \E L \in 0..MaxLen, I \in 0..MaxInterval, c \in {<<"1">>} :
          \E positions \in [1..L -> PosValues] :
              inp = Some([in_path |-> a_overlap, chrid |-> c,
                          positions |-> positions, interval |-> I])

\* The state a call of a script writer leaves: the paths it returned, the
\* script it wrote.
script_returned_to(fn, r) ==
    /\ res' = [fn |-> fn, raised |-> r.raised, value |-> Some(r.value), printed |-> None]
    /\ scripts' = r.scripts
    /\ pc' = IF r.raised = "none" THEN "returned" ELSE "raised"

call__generate_script_split ==
    /\ pc = "idle"
    /\ script_returned_to("_generate_script_split",
           _generate_script_split(scripts, the(inp).in_path, the(inp).chrid,
                                  the(inp).positions, the(inp).interval))
    /\ UNCHANGED <<args, fs, log, out, inp>>

NextPartition == call__generate_script_split
SpecPartition == InitPartition /\ [][NextPartition]_vars

\* The windows of the script the call wrote.
PartitionCalled == res.fn = "_generate_script_split" /\ the(inp).interval > 0
PartitionWindows == (CHOOSE x \in scripts : TRUE).body

\* C2: a list of L positions and an interval I > 0 give ceil(L/I) windows;
\* window k is [k*I, min(k*I + I - 1, L - 1)]; the windows are contiguous,
\* every index of 0..L-1 lies in exactly one, and the last ends at L - 1.
C2_WindowsPartition ==
    PartitionCalled =>
        LET L == Len(the(inp).positions)
            I == the(inp).interval
            w == PartitionWindows
        IN  /\ res.raised = "none"
            /\ Len(w) = (L + I - 1) \div I
            /\ Len(the(res.value)) = Len(w)
            /\ \A k \in 1..Len(w) :
                  /\ w[k].lstart = (k - 1) * I
                  /\ w[k].lend = IF (k - 1) * I + I - 1 < L - 1 THEN (k - 1) * I + I - 1 ELSE L - 1
            /\ \A k \in 1..(Len(w) - 1) : w[k + 1].lstart = w[k].lend + 1
            /\ \A x \in 0..(L - 1) :
                  Cardinality({k \in 1..Len(w) : w[k].lstart <= x /\ x <= w[k].lend}) = 1
            /\ L > 0 => w[Len(w)].lend = L - 1

\* C2 witness: several windows, the last shorter than the interval.
C2_Witness ==
    /\ PartitionCalled
    /\ Len(PartitionWindows) >= 2
    /\ LET w == PartitionWindows[Len(PartitionWindows)]
       IN  w.lend - w.lstart + 1 < the(inp).interval

----------------------------------------------------------------------------
(* SpecSplit: generate_scripts_split called with overlap path lists.        *)

overlap_file(base) == joinpath(overlap_dir, base \o OVERLAP_SUFFIX)
SplitPop1Files == { overlap_file(<<"a">>), overlap_file(<<"a", ".", "1">>),
                    overlap_file(<<"a", ".", "2">>) }
SplitPop2Files == { overlap_file(<<"b">>), overlap_file(<<"b", ".", "1">>),
                    overlap_file(<<"b", ".", "2">>), overlap_file(<<"b", ".", "1", "2">>) }

\* The data lines of an overlap file: a header, then for every chromosome id
\* the file covers (all ids when its name holds none) n positions, which
\* differ from file to file.
vcf_lines(p, n) ==
    LET covers(c) == str_in(c, p.name) \/ (~str_in(<<"1">>, p.name) /\ ~str_in(<<"2">>, p.name))
        of(c) == IF covers(c) THEN [k \in 1..n |-> [hdr |-> FALSE, chrid |-> c, pos |-> 10 * k + Len(p.name)]]
                 ELSE <<>>
    IN  <<[hdr |-> TRUE, chrid |-> <<>>, pos |-> 0]>> \o of(<<"1">>) \o of(<<"2">>)

Pop1Lines == 3
Pop2Lines == 2

InitSplit ==
    /\ \E cl \in {<<<<"1">>>>, <<<<"1">>, <<"2">>>>} :
          args = [default_args(<<"a">>, <<"b">>) EXCEPT !.chrid_list = cl]
    /\ \E gone \in SUBSET {overlap_file(<<"a", ".", "2">>)} :
          fs = [empty_fs EXCEPT
                   !.files = (SplitPop1Files \cup SplitPop2Files) \ gone,
                   !.vcf = [p \in (SplitPop1Files \cup SplitPop2Files) \ gone |->
                               vcf_lines(p, IF p \in SplitPop1Files THEN Pop1Lines ELSE Pop2Lines)]]
    /\ scripts = {}
    /\ pc = "idle"
    /\ log = <<>>
    /\ out = no_out
    /\ res = no_call
    /\ \E S1 \in SUBSET SplitPop1Files, S2 \in SUBSET SplitPop2Files :
          /\ Cardinality(S1) <= MaxFiles /\ Cardinality(S2) <= MaxFiles
          /\ inp = Some([pop1_overlap_paths |-> sorted(S1), pop2_overlap_paths |-> sorted(S2)])

call_generate_scripts_split ==
    /\ pc = "idle"
    /\ \E o1 \in orders(Len(the(inp).pop1_overlap_paths)),
          o2 \in orders(Len(the(inp).pop2_overlap_paths)) :
          stage_returned_to("generate_scripts_split",
              generate_scripts_split(args, fs, scripts,
                                     Some(the(inp).pop1_overlap_paths),
                                     Some(the(inp).pop2_overlap_paths), o1, o2))
    /\ UNCHANGED <<args, log, out, inp>>

\* get_chrpos_from_vcfgz_files called on the list of one population; log
\* keeps the list and the order in which the tasks were merged.
call_get_chrpos_from_vcfgz_files ==
    /\ pc = "idle"
    /\ \E l \in {the(inp).pop1_overlap_paths, the(inp).pop2_overlap_paths} :
          \E order \in orders(Len(l)) :
              /\ index_returned_to("get_chrpos_from_vcfgz_files",
                                   get_chrpos_from_vcfgz_files(fs, l, order))
              /\ log' = <<[vcfgz_paths |-> l, order |-> order]>>
    /\ UNCHANGED <<args, fs, scripts, out, inp>>

NextSplit == call_generate_scripts_split \/ call_get_chrpos_from_vcfgz_files
SpecSplit == InitSplit /\ [][NextSplit]_vars

\* The call made, on lists of files that are all on disk.
SplitCalled ==
    /\ res.fn = "generate_scripts_split"
    /\ \A k \in 1..Len(the(inp).pop1_overlap_paths) : the(inp).pop1_overlap_paths[k] \in fs.files
    /\ \A k \in 1..Len(the(inp).pop2_overlap_paths) : the(inp).pop2_overlap_paths[k] \in fs.files
ScriptPaths == {x.path : x \in scripts}
ChridsListed == {args.chrid_list[k] : k \in 1..Len(args.chrid_list)}
FilesOf(l) == {l[k] : k \in 1..Len(l)}

\* C3: with a single pop1 file, and a single pop2 file or one pop2 file per
\* chromosome id, the stage raises nothing and writes for every chromosome id
\* a split script of the single pop1 file and one of the id's pop2 file.
C3_SingleFileCoversAll ==
    LET p1 == the(inp).pop1_overlap_paths
        p2 == the(inp).pop2_overlap_paths
        own(c) == IF Len(p2) = 1 THEN {p2[1]} ELSE {q \in FilesOf(p2) : str_in(c, q.name)}
    IN  (SplitCalled /\ Len(p1) = 1 /\ Len(p2) >= 1
            /\ \A c \in ChridsListed : Cardinality(own(c)) = 1)
        => /\ res.raised = "none"
           /\ \A c \in ChridsListed :
                 /\ split_script_of(p1[1], c) \in ScriptPaths
                 /\ \A q \in own(c) : split_script_of(q, c) \in ScriptPaths

\* C9: with more than one file per population, an id that does not pick
\* exactly one file of each population makes the stage raise an error naming
\* it, with no split script written; otherwise each id gets the scripts of
\* its two files.
C9_OneFilePerChrid ==
    LET p1 == the(inp).pop1_overlap_paths
        p2 == the(inp).pop2_overlap_paths
        hits(c, l) == {q \in FilesOf(l) : str_in(c, q.name)}
        bad == {c \in ChridsListed : Cardinality(hits(c, p1)) # 1 \/ Cardinality(hits(c, p2)) # 1}
    IN  (SplitCalled /\ Len(p1) > 1 /\ Len(p2) > 1)
        => IF bad # {}
           THEN /\ res.raised = "CountIncorrect"
                /\ res.value # None
                /\ the(res.value).chrid \in bad
                /\ scripts = {}
           ELSE /\ res.raised = "none"
                /\ \A c \in ChridsListed :
                      \A q \in hits(c, p1) \cup hits(c, p2) : split_script_of(q, c) \in ScriptPaths

----------------------------------------------------------------------------
(* SpecXpclr: generate_scripts_xpclr called twice on the same geno and map  *)
(* lists, while the genomap scripts may run and produce the artifacts.      *)

Windows == { <<"1", "-", "0", "-", "1">>, <<"1", "-", "2", "-", "3">> }
geno_file(w, pop) == joinpath(genomap_dir, w \o <<".">> \o pop \o GENO_SUFFIX)
map_file(w, pop) == joinpath(genomap_dir, w \o <<".">> \o pop \o MAP_SUFFIX)
XpclrArtifacts ==
    UNION { {geno_file(w, <<"a">>), geno_file(w, <<"b">>), map_file(w, <<"a">>)} : w \in Windows }

\* The artifacts the lists of the call name.
Listed ==
    FilesOf(the(inp).pop1_geno_paths) \cup FilesOf(the(inp).pop2_geno_paths)
        \cup FilesOf(the(inp).pop_map_paths)

InitXpclr ==
    /\ args = default_args(<<"a">>, <<"b">>)
    /\ \E made \in SUBSET XpclrArtifacts : fs = [empty_fs EXCEPT !.files = made]
    /\ scripts = {}
    /\ pc = "idle"
    /\ log = <<>>
    /\ out = no_out
    /\ res = no_call
    /\ \E W \in SUBSET Windows :
          /\ W # {}
          /\ inp = Some([pop1_geno_paths |-> sorted({geno_file(w, <<"a">>) : w \in W}),
                         pop2_geno_paths |-> sorted({geno_file(w, <<"b">>) : w \in W}),
                         pop_map_paths |-> sorted({map_file(w, <<"a">>) : w \in W})])

\* A run of the script, at most two in a row; a run that raised ends them.
call_generate_scripts_xpclr ==
    /\ Len(log) < 2
    /\ pc # "raised"
    /\ stage_returned_to("generate_scripts_xpclr",
           generate_scripts_xpclr(args, fs, scripts, Some(the(inp).pop1_geno_paths),
                                  Some(the(inp).pop2_geno_paths), Some(the(inp).pop_map_paths)))
    /\ log' = Append(log, "generate_scripts_xpclr")
    /\ UNCHANGED <<args, out, inp>>

\* A genomap script is run by the user and its artifact appears.
write_artifact ==
    /\ \E p \in XpclrArtifacts \ fs.files : fs' = [fs EXCEPT !.files = @ \cup {p}]
    /\ UNCHANGED <<args, scripts, pc, log, out, res, inp>>

NextXpclr == call_generate_scripts_xpclr \/ write_artifact
SpecXpclr == InitXpclr /\ [][NextXpclr]_vars

LinksAt(p) == {l \in fs.links : l.at = joinpath(xpclr_dir, p.name)}

\* C10: the second run on the same lists raises nothing and leaves exactly
\* one link for every listed geno and map artifact, whether or not the
\* artifacts have been produced.
C10_SecondRunSafe ==
    (Len(log) = 2)
    => /\ res.raised = "none"
       /\ \A p \in Listed : Cardinality(LinksAt(p)) = 1

----------------------------------------------------------------------------
(* Spec: run() on a project directory.                                      *)


\* The files of a project directory: per kind an input file and the
\* artifacts of every stage; kind "lit" is a file named by the bare suffix.
disk_files(x) ==
    LET disk_base(y) == IF y = "lit" THEN <<>> ELSE <<y>>
        disk_window(y) == IF y = "lit" THEN <<>> ELSE <<"1", "-", "0", "-", "1", ".">>
    IN
    { joinpath(data_dir, disk_base(x) \o DATA_SUFFIX),
      joinpath(filter_dir, disk_base(x) \o FILTER_SUFFIX),
      joinpath(overlap_dir, disk_base(x) \o OVERLAP_SUFFIX),
      joinpath(split_dir, disk_window(x) \o disk_base(x) \o SPLIT_SUFFIX),
      joinpath(genomap_dir, disk_window(x) \o disk_base(x) \o GENO_SUFFIX),
      joinpath(genomap_dir, disk_window(x) \o disk_base(x) \o MAP_SUFFIX) }

RunLines == 2

\* Scripts an earlier use of the project directory may have left: the filter
\* script of the pop1 input, written by generate_scripts_filter given lists.
earlier_scripts ==
    write_script({}, filter_script_of(joinpath(data_dir, <<"d">> \o DATA_SUFFIX)),
                 <<joinpath(data_dir, <<"d">> \o DATA_SUFFIX),
                   filter_path_of(joinpath(data_dir, <<"d">> \o DATA_SUFFIX))>>)

Init ==
    /\ \E t1 \in {<<"d">>, <<"g", "z">>}, t2 \in Pop2Tokens, R \in SUBSET {Stages[k] : k \in 1..Len(Stages)} :
          /\ R # {}
          /\ args = [default_args(t1, t2) EXCEPT !.run = R]
    /\ \E K \in SUBSET {"d", "b", "lit"} :
          fs = [empty_fs EXCEPT
                   !.files = UNION {disk_files(x) : x \in K},
                   !.vcf = [p \in {q \in UNION {disk_files(x) : x \in K} : q.dir = overlap_dir}
                               |-> vcf_lines(p, RunLines)]]
    /\ scripts \in {{}, earlier_scripts}
    /\ pc = "filter"
    /\ log = <<>>
    /\ out = no_out
    /\ res = no_call
    /\ inp = None

\* The assignment of the tuple a stage returned to the locals `names`.
assigned(names, value) ==
    [n \in DOMAIN out |->
        IF \E k \in 1..Len(names) : names[k] = n
        THEN Some(value[CHOOSE k \in 1..Len(names) : names[k] = n])
        ELSE out[n]]

\* Variant of after_call: run() goes on after an exception.
after_call_goes_on(raised, next) == next

\* Where run() is after a call: an exception leaves run().
after_call(raised, next) == IF raised = "none" THEN next ELSE "raised"

\* One `if args.run_<stage>:` statement of run(): the stage is skipped, or
\* called with in1 and in2; o is what the call evaluates to.
run_step(stage, next, in1, in2, o, names) ==
    IF stage \notin args.run
    THEN /\ pc' = next
         /\ UNCHANGED <<fs, scripts, log, out, res>>
    ELSE /\ log' = Append(log, [stage |-> stage, in1 |-> in1, in2 |-> in2, raised |-> o.raised])
         /\ res' = [fn |-> stage, raised |-> o.raised, value |-> o.value, printed |-> None]
         /\ fs' = o.fs
         /\ scripts' = o.scripts
         /\ pc' = after_call(o.raised, next)
         /\ out' = IF o.raised = "none" THEN assigned(names, the(o.value)) ELSE out

list_len(l) == IF l = None THEN 0 ELSE Len(the(l))

\* xpclr_paths = self.generate_scripts_xpclr(...): one value, not a tuple.
single(o) == [o EXCEPT !.value = IF @ = None THEN None ELSE Some(<<the(@)>>)]

run_filter ==
    /\ pc = "filter"
    /\ run_step("filter", "overlap", None, None,
                generate_scripts_filter(args, fs, scripts, None, None),
                <<"pop1_filter_paths", "pop2_filter_paths">>)
    /\ UNCHANGED <<args, inp>>

run_overlap ==
    /\ pc = "overlap"
    /\ run_step("overlap", "split", out.pop1_filter_paths, out.pop2_filter_paths,
                generate_scripts_overlap(args, fs, scripts,
                                         out.pop1_filter_paths, out.pop2_filter_paths),
                <<"pop1_overlap_paths", "pop2_overlap_paths">>)
    /\ UNCHANGED <<args, inp>>

run_split ==
    /\ pc = "split"
    /\ \E o1 \in orders(list_len(out.pop1_overlap_paths)),
          o2 \in orders(list_len(out.pop2_overlap_paths)) :
          run_step("split", "genomap", out.pop1_overlap_paths, out.pop2_overlap_paths,
                   generate_scripts_split(args, fs, scripts,
                                          out.pop1_overlap_paths, out.pop2_overlap_paths, o1, o2),
                   <<"pop1_split_paths", "pop2_split_paths">>)
    /\ UNCHANGED <<args, inp>>

run_genomap ==
    /\ pc = "genomap"
    /\ run_step("genomap", "xpclr", out.pop1_split_paths, out.pop2_split_paths,
                generate_scripts_genomap(args, fs, scripts,
                                         out.pop1_split_paths, out.pop2_split_paths),
                <<"pop1_geno_paths", "pop2_geno_paths", "pop1_map_paths", "pop2_map_paths">>)
    /\ UNCHANGED <<args, inp>>

run_xpclr ==
    /\ pc = "xpclr"
    /\ run_step("xpclr", "done", out.pop1_geno_paths, out.pop2_geno_paths,
                single(generate_scripts_xpclr(args, fs, scripts, out.pop1_geno_paths,
                                              out.pop2_geno_paths, out.pop1_map_paths)),
                <<"xpclr_paths">>)
    /\ UNCHANGED <<args, inp>>

Next == run_filter \/ run_overlap \/ run_split \/ run_genomap \/ run_xpclr
Spec == Init /\ [][Next]_vars

\* run() is over: it returned or a stage raised.
RunOver == pc \in {"done", "raised"}
Started(stage) == \E k \in 1..Len(log) : log[k].stage = stage
StartOf(stage) == log[CHOOSE k \in 1..Len(log) : log[k].stage = stage]

\* The files of `folder` are one pop1 and one pop2 artifact ending in `sfx`.
HoldsPair(folder, sfx) ==
    LET here == {p \in fs.files : p.dir = folder}
    IN  /\ Cardinality(here) = 2
        /\ \A p \in here : fnmatch(p.name, <<"*">> \o sfx)
        /\ Cardinality({p \in here : str_in(args.pop1, p.name)}) = 1
        /\ Cardinality({p \in here : ~str_in(args.pop1, p.name) /\ str_in(args.pop2, p.name)}) = 1

\* C4: a split stage started without lists (overlap was disabled) on an
\* overlap directory that holds one pop1 and one pop2 .overlap.vcf.gz
\* artifact raises nothing and writes a split script for each artifact.
C4_RediscoveryYieldsArtifacts ==
    (Started("split") /\ StartOf("split").in1 = None
        /\ HoldsPair(overlap_dir, OVERLAP_SUFFIX))
    => /\ StartOf("split").raised = "none"
       /\ \A p \in {q \in fs.files : q.dir = overlap_dir} :
             \E c \in ChridsListed : split_script_of(p, c) \in ScriptPaths

\* C5: when run() is over on a data directory that holds one pop1 and one
\* pop2 input file, with filter and overlap both enabled, overlap was
\* started, after filter, with the two lists that filter returned.
C5_SuccessorReceivesLists ==
    (RunOver /\ {"filter", "overlap"} \subseteq args.run /\ HoldsPair(data_dir, DATA_SUFFIX))
    => /\ Started("filter") /\ Started("overlap")
       /\ StartOf("overlap").in1 # None
       /\ StartOf("overlap").in1 = out.pop1_filter_paths
       /\ StartOf("overlap").in2 = out.pop2_filter_paths

----------------------------------------------------------------------------
(* SpecNames: the names of one pair of input files followed through the     *)
(* five stages, each stage naming its artifact from the previous one.       *)

NameBases1 == { <<"d">>, <<"d", ".", "x">> }
NameBases2 == { <<"b">>, <<"b", ".", "x">> }
NameChrids == { <<"1">>, <<"c", "2">>, <<"1", ".", "2">>, <<"c", "-", "1">> }

InitNames ==
    /\ args = default_args(<<"d">>, <<"b">>)
    /\ fs = empty_fs
    /\ scripts = {}
    /\ pc = "filter"
    /\ log = <<>>
    /\ out = no_out
    /\ res = no_call
    /\ \E b1 \in NameBases1, b2 \in NameBases2, c \in NameChrids,
          L \in 1..MaxLen, I \in 1..MaxInterval :
          inp = Some([base1 |-> b1, base2 |-> b2, chrid |-> c,
                      positions |-> [k \in 1..L |-> 10 + k], interval |-> I,
                      p1 |-> joinpath(data_dir, b1 \o DATA_SUFFIX),
                      p2 |-> joinpath(data_dir, b2 \o DATA_SUFFIX)])

\* The path one unit of a stage returned, kept as the one-element list of
\* the population.
derived(next, names, paths) ==
    /\ out' = assigned(names, [k \in 1..Len(paths) |-> <<paths[k]>>])
    /\ pc' = next
    /\ UNCHANGED <<args, fs, scripts, log, res, inp>>

derive_filter ==
    /\ pc = "filter"
    /\ derived("overlap", <<"pop1_filter_paths", "pop2_filter_paths">>,
               <<filter_path_of(the(inp).p1), filter_path_of(the(inp).p2)>>)

derive_overlap ==
    /\ pc = "overlap"
    /\ derived("split", <<"pop1_overlap_paths", "pop2_overlap_paths">>,
               <<overlap_path_of(the(out.pop1_filter_paths)[1]),
                 overlap_path_of(the(out.pop2_filter_paths)[1])>>)

\* The paths _generate_script_split returns for the overlap artifact p.
split_paths_of(p) ==
    _generate_script_split({}, p, the(inp).chrid, the(inp).positions, the(inp).interval).value

\* One window of the chromosome, the same for the two populations.
derive_split ==
    /\ pc = "split"
    /\ \E k \in 1..Len(split_paths_of(the(out.pop1_overlap_paths)[1])) :
          derived("genomap", <<"pop1_split_paths", "pop2_split_paths">>,
                  <<split_paths_of(the(out.pop1_overlap_paths)[1])[k],
                    split_paths_of(the(out.pop2_overlap_paths)[1])[k]>>)

derive_genomap ==
    /\ pc = "genomap"
    /\ derived("xpclr",
               <<"pop1_geno_paths", "pop2_geno_paths", "pop1_map_paths", "pop2_map_paths">>,
               <<geno_path_of(the(out.pop1_split_paths)[1]),
                 geno_path_of(the(out.pop2_split_paths)[1]),
                 map_path_of(the(out.pop1_split_paths)[1]),
                 map_path_of(the(out.pop2_split_paths)[1])>>)

\* The body of the xpclr loop up to xpclr_path: chrnum is computed first and
\* raises AttributeError when re.search finds no digit.
derive_xpclr ==
    /\ pc = "xpclr"
    /\ IF chrnum_match(the(out.pop1_map_paths)[1]) = None
       THEN /\ pc' = "raised"
            /\ res' = [no_call EXCEPT !.fn = "generate_scripts_xpclr",
                                      !.raised = "AttributeError"]
            /\ UNCHANGED <<args, fs, scripts, log, out, inp>>
       ELSE /\ res' = [no_call EXCEPT !.fn = "generate_scripts_xpclr",
                          !.value = Some([name1 |-> xpclr_name(the(out.pop1_geno_paths)[1]),
                                          name2 |-> xpclr_name(the(out.pop2_geno_paths)[1]),
                                          chr_interval |-> chr_interval_of(the(out.pop1_map_paths)[1]),
                                          chrnum |-> int_of(the(chrnum_match(the(out.pop1_map_paths)[1])))])]
            /\ out' = assigned(<<"xpclr_paths">>,
                               <<<<xpclr_path_of(the(out.pop1_geno_paths)[1],
                                                 the(out.pop2_geno_paths)[1],
                                                 the(out.pop1_map_paths)[1])>>>>)
            /\ pc' = "done"
            /\ UNCHANGED <<args, fs, scripts, log, inp>>

NextNames == derive_filter \/ derive_overlap \/ derive_split \/ derive_genomap \/ derive_xpclr
SpecNames == InitNames /\ [][NextNames]_vars

\* The name of the file XPCLR writes: it appends its suffix to xpclr_path.
xpclr_artifact_name == the(out.xpclr_paths)[1].name \o XPCLR_SUFFIX
has_char(c, s) == \E i \in 1..Len(s) : s[i] = c
\* The window of the split artifact the chain went through.
NamedWindow ==
    drop_last(the(out.pop1_split_paths)[1].name,
              1 + Len(the(inp).base1) + Len(SPLIT_SUFFIX))

\* C11 as stated: the stage-5 artifact name without its suffix is the base
\* name of the stage-1 input file.
C11_RoundTripBase ==
    (pc = "done") => drop_last(xpclr_artifact_name, Len(XPCLR_SUFFIX)) = the(inp).base1

\* C11 amended: for a chromosome id without ".", the stage-5 artifact name
\* without its suffix is <chrid>-<lstart>-<lend>.<base1>_<base2>, and the
\* stage-1 base names are the names the xpclr stage derives from the geno
\* names.
C11_RoundTripWindowPair ==
    (pc = "done" /\ ~has_char(".", the(inp).chrid))
    => /\ drop_last(xpclr_artifact_name, Len(XPCLR_SUFFIX))
            = NamedWindow \o <<".">> \o the(inp).base1 \o <<"_">> \o the(inp).base2
       /\ the(res.value).name1 = the(inp).base1
       /\ the(res.value).name2 = the(inp).base2
       /\ SubSeq(NamedWindow, 1, Len(the(inp).chrid)) = the(inp).chrid

\* C11 witness: the chain completed for a base name that holds a ".".
C11_Witness ==
    /\ pc = "done"
    /\ ~has_char(".", the(inp).chrid)
    /\ has_char(".", the(inp).base1)
    /\ Len(xpclr_artifact_name) > Len(XPCLR_SUFFIX)

----------------------------------------------------------------------------
(* Properties of the regions of _generate_script_split (SpecPartition).     *)

\* The "-"-separated fields of the first "."-segment of an artifact name.
WindowFields(p) == str_split(str_split(p.name, ".")[1], "-")

\* C12: every window's region is chrid:positions[lstart]-positions[lend],
\* the position values at the window's first and last index, and the
\* artifact name carries chrid-lstart-lend, the indices.
C12_RegionByPositionValues ==
    PartitionCalled =>
        \A k \in 1..Len(PartitionWindows) :
            LET w == PartitionWindows[k]
            IN  /\ w.chrid = the(inp).chrid
                /\ w.in_path = the(inp).in_path
                /\ w.pos_start = the(inp).positions[w.lstart + 1]
                /\ w.pos_end = the(inp).positions[w.lend + 1]
                /\ w.pos_start \in PosValues /\ w.pos_end \in PosValues
                /\ WindowFields(w.split_path)[1] = the(inp).chrid
                /\ int_of(WindowFields(w.split_path)[2]) = w.lstart
                /\ int_of(WindowFields(w.split_path)[3]) = w.lend
                /\ the(res.value)[k] = w.split_path

\* C12 witness: two windows whose neighbouring positions differ, the second
\* window's region starting at another value than the first one's end.
C12_Witness ==
    /\ PartitionCalled
    /\ Len(PartitionWindows) >= 2
    /\ PartitionWindows[1].pos_end # PartitionWindows[2].pos_start
    /\ PartitionWindows[2].pos_start # PartitionWindows[2].pos_end

----------------------------------------------------------------------------
(* SpecScan: get_chrpos_from_vcfgz called on one file.                      *)

MaxLines == 5
\* A line of the file: a header line ("#"), or a data line of a chromosome.
LineKinds == {"#", "1", "2"}
line_of(kind, k) ==
    [hdr |-> kind = "#", chrid |-> IF kind = "#" THEN <<"#">> ELSE <<kind>>, pos |-> 10 * k]

InitScan ==
    /\ args = default_args(<<"a">>, <<"b">>)
    /\ scripts = {}
    /\ pc = "idle"
    /\ log = <<>>
    /\ out = no_out
    /\ res = no_call
    /\ inp = Some([vcfgz_path |-> overlap_file(<<"a">>)])
    /\ \E n \in 0..MaxLines : \E kinds \in [1..n -> LineKinds] :
          fs = [empty_fs EXCEPT
                   !.files = {overlap_file(<<"a">>)},
                   !.vcf = (overlap_file(<<"a">>) :> [k \in 1..n |-> line_of(kinds[k], k)])]

call_get_chrpos_from_vcfgz ==
    /\ pc = "idle"
    /\ index_returned_to("get_chrpos_from_vcfgz",
                         get_chrpos_from_vcfgz(fs, the(inp).vcfgz_path))
    /\ UNCHANGED <<args, fs, scripts, log, out, inp>>

NextScan == call_get_chrpos_from_vcfgz
SpecScan == InitScan /\ [][NextScan]_vars

\* The data lines of a file, in file order, and the last maximal run of
\* consecutive data lines of chromosome c among them.
DataLines(path) == SelectSeq(fs.vcf[path], LAMBDA l : ~l.hdr)
ChridsIn(d) == {d[k].chrid : k \in 1..Len(d)}
LastRun(d, c) ==
    LET e == CHOOSE e \in 1..Len(d) :
                 d[e].chrid = c /\ \A j \in (e + 1)..Len(d) : d[j].chrid # c
        b == CHOOSE b \in 1..e :
                 /\ \A j \in b..e : d[j].chrid = c
                 /\ (b = 1 \/ d[b - 1].chrid # c)
    IN  [k \in 1..(e - b + 1) |-> d[b + k - 1].pos]
ScanCalled == res.fn = "get_chrpos_from_vcfgz"

\* C13: the mapping's keys are the chromosome ids of the data lines; each
\* maps to the positions, in file order, of the last maximal run of
\* consecutive data lines with that id; header lines contribute nothing.
C13_LastRunPerChrid ==
    ScanCalled =>
        /\ res.raised = "none"
        /\ DOMAIN the(res.value) = ChridsIn(DataLines(the(inp).vcfgz_path))
        /\ \A c \in DOMAIN the(res.value) :
              the(res.value)[c] = LastRun(DataLines(the(inp).vcfgz_path), c)

\* C13 witness: a header line between data lines, and a chromosome id with
\* two runs separated by another id, of which only the last is kept.
C13_Witness ==
    /\ ScanCalled
    /\ \E k \in 2..(Len(fs.vcf[the(inp).vcfgz_path]) - 1) : fs.vcf[the(inp).vcfgz_path][k].hdr
    /\ \E c \in DOMAIN the(res.value) :
          Len(the(res.value)[c])
              < Cardinality({k \in 1..Len(DataLines(the(inp).vcfgz_path)) :
                                DataLines(the(inp).vcfgz_path)[k].chrid = c})

----------------------------------------------------------------------------
(* Properties of the split stage on chromosomes without data (SpecSplit).   *)

\* No file of the list l holds a data line of chromosome c.
NoDataFor(c, l) ==
    \A k \in 1..Len(l) : \A j \in 1..Len(fs.vcf[l[k]]) :
        fs.vcf[l[k]][j].hdr \/ fs.vcf[l[k]][j].chrid # c

\* C14: with one file per population, a listed chromosome id for which a
\* population's file holds no data line raises no error; the stage still
\* writes that id's split script, with zero windows, and the scripts of the
\* other ids.
C14_EmptyChromosomeStillEmitted ==
    LET p1 == the(inp).pop1_overlap_paths
        p2 == the(inp).pop2_overlap_paths
    IN  (SplitCalled /\ Len(p1) = 1 /\ Len(p2) = 1
            /\ \E c \in ChridsListed : NoDataFor(c, p1) \/ NoDataFor(c, p2))
        => /\ res.raised = "none"
           /\ \A c \in ChridsListed :
                 /\ split_script_of(p1[1], c) \in ScriptPaths
                 /\ split_script_of(p2[1], c) \in ScriptPaths
                 /\ NoDataFor(c, p1)
                    => \E x \in scripts : x.path = split_script_of(p1[1], c) /\ x.body = <<>>

----------------------------------------------------------------------------
(* Properties of run() after an exception (Spec).                           *)

stage_index(stage) == CHOOSE k \in 1..Len(Stages) : Stages[k] = stage

\* Every step of run() starts where no stage has raised, and leaves every
\* script file that was on disk.
RunStepKeepsScripts ==
    /\ pc # "raised"
    /\ \A k \in 1..Len(log) : log[k].raised = "none"
    /\ scripts \subseteq scripts'

\* C15: once a stage has raised, no later stage is started (the raising call
\* is the last one started), and no step removes or changes a script file
\* that was written before.
C15_RaiseStopsRunKeepsScripts ==
    /\ [](\A k \in 1..(Len(log) - 1) : log[k].raised = "none")
    /\ [](pc = "raised" => (Len(log) >= 1 /\ log[Len(log)].raised # "none"))
    /\ [][RunStepKeepsScripts]_vars

\* C15 witness: a stage raised with a later stage enabled and scripts on
\* disk; the later stage was not started and the scripts are still there.
C15_Witness ==
    /\ pc = "raised"
    /\ scripts = earlier_scripts
    /\ \E st \in args.run :
          /\ stage_index(st) > stage_index(log[Len(log)].stage)
          /\ ~Started(st)

----------------------------------------------------------------------------
(* Properties of get_chrpos_from_vcfgz_files (SpecSplit).                   *)

IndexCalled == res.fn = "get_chrpos_from_vcfgz_files"
IndexedPaths == log[1].vcfgz_paths
MergeOrder == log[1].order
KeysOf(path) == ChridsIn(DataLines(path))
\* The tasks, by their place in the list, whose file reports chromosome c,
\* and the one of them that was merged last.
Reporters(c) == {k \in 1..Len(IndexedPaths) : c \in KeysOf(IndexedPaths[k])}
MergedLast(c) ==
    MergeOrder[CHOOSE i \in 1..Len(MergeOrder) :
                   /\ MergeOrder[i] \in Reporters(c)
                   /\ \A j \in (i + 1)..Len(MergeOrder) : MergeOrder[j] \notin Reporters(c)]

\* C16: the mapping returned has the union of the files' keys; a key that
\* one file reports maps to that file's positions whatever the order of the
\* merge, and a key that several files report maps to the positions of the
\* file merged last.
C16_MergeIsKeyUnion ==
    (IndexCalled /\ res.raised = "none")
    => /\ DOMAIN the(res.value) = UNION {KeysOf(IndexedPaths[k]) : k \in 1..Len(IndexedPaths)}
       /\ \A c \in DOMAIN the(res.value) :
             /\ \A k \in Reporters(c) :
                   Reporters(c) = {k}
                   => the(res.value)[c] = LastRun(DataLines(IndexedPaths[k]), c)
             /\ the(res.value)[c] = LastRun(DataLines(IndexedPaths[MergedLast(c)]), c)

\* C16 witness: two files report one key and another key comes from one
\* file only; the first file of the list was merged last and its positions
\* are the ones returned.
C16_Witness ==
    /\ IndexCalled /\ res.raised = "none"
    /\ \E c \in DOMAIN the(res.value) :
          /\ Cardinality(Reporters(c)) >= 2
          /\ MergedLast(c) = 1
          /\ \E k \in Reporters(c) :
                LastRun(DataLines(IndexedPaths[k]), c) # the(res.value)[c]
    /\ \E c \in DOMAIN the(res.value) : Cardinality(Reporters(c)) = 1

----------------------------------------------------------------------------
(* Properties of failing indexing tasks (SpecSplit).                        *)

Missing(l) == {k \in 1..Len(l) : l[k] \notin fs.files}

\* C17: a mapping is returned only when every task has succeeded, and it
\* then holds the keys of every file; a task that fails on a missing file
\* makes get_chrpos_from_vcfgz_files raise its error, and the split stage
\* called on such a list raises that error, returns nothing and writes no
\* split script.
C17_AllTasksOrError ==
    /\ IndexCalled
       => /\ res.raised = "none"
             => /\ Missing(IndexedPaths) = {}
                /\ \A k \in 1..Len(IndexedPaths) :
                      KeysOf(IndexedPaths[k]) \subseteq DOMAIN the(res.value)
          /\ Missing(IndexedPaths) # {} => res.raised = "FileNotFoundError"
    /\ (res.fn = "generate_scripts_split"
           /\ Len(the(inp).pop1_overlap_paths) >= 1 /\ Len(the(inp).pop2_overlap_paths) >= 1
           /\ Missing(the(inp).pop1_overlap_paths) \cup Missing(the(inp).pop2_overlap_paths) # {})
       => /\ res.raised = "FileNotFoundError"
          /\ res.value = None
          /\ scripts = {}

\* C17 witness: the split stage was given a pop1 list of a file on disk and
\* a file that is missing, and raised the task's error.
C17_Witness ==
    /\ res.fn = "generate_scripts_split"
    /\ Len(the(inp).pop1_overlap_paths) >= 2
    /\ Len(the(inp).pop2_overlap_paths) >= 1
    /\ Cardinality(Missing(the(inp).pop1_overlap_paths)) = 1
    /\ res.raised = "FileNotFoundError"

----------------------------------------------------------------------------
(* Properties of the split stage on a missing chromosome (SpecSplit).       *)

\* The places of the chromosome list whose id a population's index lacks.
Lacking(p1, p2) ==
    {k \in 1..Len(args.chrid_list) :
        NoDataFor(args.chrid_list[k], p1) \/ NoDataFor(args.chrid_list[k], p2)}

\* C18: with one file per population, the first listed chromosome id that
\* a population's index lacks makes the stage raise KeyError; the scripts of
\* the earlier ids, and the pop1 script of the failing id when only pop2
\* lacks it, are on disk, and no script of a later id is written.
C18_MissingChromosomeAborts ==
    LET p1 == the(inp).pop1_overlap_paths
        p2 == the(inp).pop2_overlap_paths
        first == CHOOSE k \in Lacking(p1, p2) : \A j \in Lacking(p1, p2) : k <= j
    IN  (SplitCalled /\ Len(p1) = 1 /\ Len(p2) = 1 /\ Lacking(p1, p2) # {})
        => /\ res.raised = "KeyError"
           /\ \A k \in 1..(first - 1) :
                 /\ split_script_of(p1[1], args.chrid_list[k]) \in ScriptPaths
                 /\ split_script_of(p2[1], args.chrid_list[k]) \in ScriptPaths
           /\ ~NoDataFor(args.chrid_list[first], p1)
              => split_script_of(p1[1], args.chrid_list[first]) \in ScriptPaths
           /\ \A k \in (first + 1)..Len(args.chrid_list) :
                 /\ split_script_of(p1[1], args.chrid_list[k]) \notin ScriptPaths
                 /\ split_script_of(p2[1], args.chrid_list[k]) \notin ScriptPaths

----------------------------------------------------------------------------
(* Properties of the split path lists (SpecSplit).                          *)

----------------------------------------------------------------------------
(* Properties of the names the xpclr stage recovers (SpecNames).            *)

\* C20: for every chromosome id, ids with "." or "-" included, the xpclr
\* stage raises nothing and recovers from the geno and map names the window
\* <chrid>-<lstart>-<lend> of the split artifact as chr_interval and the
\* base names of the two populations, and names its output by them.
C20_WindowIdentityRecovered ==
    (pc \in {"done", "raised"})
    => /\ pc = "done"
       /\ the(res.value).chr_interval = NamedWindow
       /\ the(res.value).name1 = the(inp).base1
       /\ the(res.value).name2 = the(inp).base2
       /\ the(out.xpclr_paths)[1].name
             = NamedWindow \o <<".">> \o the(inp).base1 \o <<"_">> \o the(inp).base2

----------------------------------------------------------------------------
(* njtreesub.py: substitute ids for the matrix given to fneighbor, and the  *)
(* ids of the tree it builds restored (SpecTree).                           *)

MaxRows == 3        \* most rows of a matrix file

\* md5(mat_path.encode("utf8")).hexdigest().upper()[:4] of the two matrix
\* paths drawn, "m1" and "m2".
md5_prefix(mat_path) ==
    IF mat_path = <<"m", "1">> THEN <<"A", "E", "7", "B">> ELSE <<"A", "A", "F", "2">>

\* "{:04d}".format(i)
format_04d(i) == repeat(<<"0">>, 4 - Len(str_of_int(i))) \o str_of_int(i)

\* "{}{:04d}".format(id_prefix, i)
sid2_of(id_prefix, i) == id_prefix \o format_04d(i)

\* The rows of submatrix(): row i is read (an empty line at the end of the
\* file), cut at its tabs into sid and nums, and written as sid2 and nums
\* to the output and as sid2, a tab and sid to the mapping.
RECURSIVE submatrix_loop(_, _, _, _, _, _)
RECURSIVE submatrix_row(_, _, _, _, _, _, _)
submatrix_row(id_prefix, lines, count, i, out_lines, mapping_lines, parts) ==
    IF Len(parts) # 2
    THEN [raised |-> "ValueError", out |-> out_lines, mapping |-> mapping_lines]
    ELSE submatrix_loop(id_prefix, lines, count, i + 1,
                        Append(out_lines, sid2_of(id_prefix, i) \o parts[2]),
                        Append(mapping_lines, sid2_of(id_prefix, i) \o <<"\t">> \o parts[1]))

submatrix_loop(id_prefix, lines, count, i, out_lines, mapping_lines) ==
    IF i >= count
    THEN [raised |-> "none", out |-> out_lines, mapping |-> mapping_lines]
    ELSE submatrix_row(id_prefix, lines, count, i, out_lines, mapping_lines,
                       str_split(IF i < Len(lines) THEN lines[i + 1] ELSE <<>>, "\t"))

\* submatrix(mat_path, out_path, mapping_path) on the matrix mat: what it
\* raised, and the lines of the two files it wrote until then.
submatrix(mat_path, mat) ==
    submatrix_loop(<<"_">> \o md5_prefix(mat_path), mat.lines, mat.count, 0, <<>>, <<>>)

\* str.replace(old, new) for an empty old: new before every character and
\* at the end.
RECURSIVE str_between(_, _)
str_between(s, new) ==
    IF s = <<>> THEN new ELSE new \o <<s[1]>> \o str_between(Tail(s), new)

\* str.replace(old, new): the occurrences of old found from the left, none
\* overlapping the one before it, each replaced by new.
RECURSIVE str_replace(_, _, _)
str_replace(s, old, new) ==
    IF old = <<>> THEN str_between(s, new)
    ELSE IF Len(s) < Len(old) THEN s
    ELSE IF SubSeq(s, 1, Len(old)) = old
         THEN new \o str_replace(SubSeq(s, Len(old) + 1, Len(s)), old, new)
         ELSE <<s[1]>> \o str_replace(Tail(s), old, new)

\* The mapping lines of restoretree(), from line k on: each is cut at its
\* tabs into sid2 and sid, and sid2 is replaced by sid in the whole text.
RECURSIVE restoretree_loop(_, _, _)
RECURSIVE restoretree_line(_, _, _, _)
restoretree_line(tree_text, mapping_lines, k, parts) ==
    IF Len(parts) # 2
    THEN [raised |-> "ValueError", text |-> None]
    ELSE restoretree_loop(str_replace(tree_text, parts[1], parts[2]), mapping_lines, k + 1)

restoretree_loop(tree_text, mapping_lines, k) ==
    IF k > Len(mapping_lines) THEN [raised |-> "none", text |-> Some(tree_text)]
    ELSE restoretree_line(tree_text, mapping_lines, k, str_split(mapping_lines[k], "\t"))

\* restoretree(tree_path, mapping_path, out_tree_path): what it raised and
\* the text it wrote.
restoretree(tree_text, mapping_lines) == restoretree_loop(tree_text, mapping_lines, 1)

\* Matrix paths, original ids and the rest of a row; "_AE7B0001" is an id
\* of the shape submatrix() gives, and "0\t1" holds a second tab.
MatPaths == {<<"m", "1">>, <<"m", "2">>}
RowIds == {<<"s", "1">>, <<"s", "2">>, <<"t">>, <<"_", "A", "E", "7", "B", "0", "0", "0", "1">>}
RowNums == {<<"0">>, <<"0", "\t", "1">>}
RowIdLists ==
    {ids \in UNION {[1..n -> RowIds] : n \in 0..MaxRows} :
        \A a, b \in DOMAIN ids : a # b => ids[a] # ids[b]}
lines_of(ids, nums) == [k \in 1..Len(ids) |-> ids[k] \o <<"\t">> \o nums]

\* The text of a tree with the given leaves, and a list back to front.
tree_of(leaves) == <<"(">> \o str_join(",", leaves) \o <<")", ";">>
reversed(l) == [k \in 1..Len(l) |-> l[Len(l) + 1 - k]]
ordered(order, l) == IF order = "reversed" THEN reversed(l) ELSE l

\* The first field of every line of a file.
first_fields(lines) == [k \in 1..Len(lines) |-> str_split(lines[k], "\t")[1]]

InitTree ==
    /\ \E p \in MatPaths : args = [mat |-> p]
    /\ \E ids \in RowIdLists, nums \in RowNums, count \in 0..MaxRows :
          fs = [mat |-> [count |-> count, lines |-> lines_of(ids, nums)],
                out_mat |-> None, mapping |-> None, tree |-> None, out_tree |-> None]
    /\ scripts = {}
    /\ pc = "idle"
    /\ log = <<>>
    /\ out = no_out
    /\ res = no_call
    /\ inp = None

\* The state submatrix() leaves: the count line and the rows written to the
\* output, the mapping lines, and the count printed.
submatrix_done(r) ==
    /\ fs' = [fs EXCEPT !.out_mat = Some([count |-> fs.mat.count, lines |-> r.out]),
                        !.mapping = Some(r.mapping)]
    /\ res' = [fn |-> "submatrix", raised |-> r.raised, value |-> None,
               printed |-> Some(fs.mat.count)]
    /\ pc' = IF r.raised = "none" THEN "returned" ELSE "raised"
    /\ UNCHANGED <<args, scripts, log, out, inp>>

call_submatrix ==
    /\ pc = "idle"
    /\ submatrix_done(submatrix(args.mat, fs.mat))

\* fneighbor builds a tree whose leaves are the ids of the rows it was
\* given, in the order of the rows or the other way round.
write_tree ==
    /\ pc = "returned"
    /\ res.fn = "submatrix"
    /\ \E order \in {"rows", "reversed"} :
          /\ inp' = Some([order |-> order])
          /\ fs' = [fs EXCEPT !.tree = Some(tree_of(ordered(order, first_fields(the(fs.mapping)))))]
    /\ pc' = "tree"
    /\ UNCHANGED <<args, scripts, log, out, res>>

\* The state restoretree() leaves: the text written, none when it raised.
restoretree_done(r) ==
    /\ fs' = [fs EXCEPT !.out_tree = IF r.raised = "none" THEN r.text ELSE Some(<<>>)]
    /\ res' = [fn |-> "restoretree", raised |-> r.raised, value |-> None, printed |-> None]
    /\ pc' = IF r.raised = "none" THEN "restored" ELSE "raised"
    /\ UNCHANGED <<args, scripts, log, out, inp>>

call_restoretree ==
    /\ pc = "tree"
    /\ restoretree_done(restoretree(the(fs.tree), the(fs.mapping)))

NextTree == call_submatrix \/ write_tree \/ call_restoretree
SpecTree == InitTree /\ [][NextTree]_vars

----------------------------------------------------------------------------
(* Properties of the substitute ids and of the restored tree (SpecTree).    *)

\* The matrix file holds as many rows as its count line says, each an id,
\* one tab and the rest.
MatrixOfCountRows ==
    /\ fs.mat.count = Len(fs.mat.lines)
    /\ \A k \in 1..Len(fs.mat.lines) : Len(str_split(fs.mat.lines[k], "\t")) = 2

\* The ids of the rows of the matrix, and the ids written in their place.
OriginalIds == first_fields(fs.mat.lines)
SubstituteIds == first_fields(the(fs.mapping))

\* C21: for a matrix of count rows, submatrix raises nothing, writes for
\* every row a substitute id of at most 10 characters that no other row
\* has, in front of the row in the output and with the original id in the
\* mapping; and restoretree turns the tree whose leaves are the substitute
\* ids into the tree whose leaves are the original ids, each in the place
\* of its own substitute, whatever the original ids are.
C21_RoundTripRestoresIds ==
    MatrixOfCountRows
    => /\ pc # "raised"
       /\ pc \in {"returned", "tree", "restored"}
          => /\ Len(the(fs.mapping)) = fs.mat.count
             /\ Len(the(fs.out_mat).lines) = fs.mat.count
             /\ \A k \in 1..fs.mat.count :
                   /\ the(fs.mapping)[k] = SubstituteIds[k] \o <<"\t">> \o OriginalIds[k]
                   /\ SubSeq(the(fs.out_mat).lines[k], 1, Len(SubstituteIds[k])) = SubstituteIds[k]
                   /\ Len(SubstituteIds[k]) <= 10
                   /\ \A j \in 1..fs.mat.count : j # k => SubstituteIds[j] # SubstituteIds[k]
       /\ pc = "restored"
          => the(fs.out_tree) = tree_of(ordered(the(inp).order, OriginalIds))

====
